---- MODULE Spec2Model ----
(***************************************************************************)
(* Model of the bitcoin-ffi wrapper layer: the error family mappers of     *)
(* src/src/error.rs (the `From<Upstream> for Stable` impls) and the        *)
(* fallible wrapper operations of src/src/lib.rs that call them.           *)
(*                                                                         *)
(* An upstream error is a record [variant |-> ..., <payload fields>]; the  *)
(* upstream enums are #[non_exhaustive], so every upstream type also has   *)
(* the value "Unlisted": a variant no match arm of the mapper names.       *)
(* A stable error is a record [family |-> ..., variant |-> ..., <fields>]. *)
(***************************************************************************)
EXTENDS Integers, Sequences, FiniteSets, TLC

\* op:       the operation of the boundary that ran last
\* input:    its arguments
\* upstream: the calls it made into the wrapped library, with their outcomes
\* result:   what it returned to the caller (or that it panicked)
\* psbts:    the Psbt objects the foreign side holds; a handle is an index
VARIABLES op, input, upstream, result, psbts

vars == <<op, input, upstream, result, psbts>>

(***************************************************************************)
(* Bounds                                                                  *)
(***************************************************************************)
\* number of distinct sub-error payloads of each upstream payload type
MaxOpaque == 2

\* number of Psbt objects the foreign side holds at once
MaxPsbts == 2

(***************************************************************************)
(* Primitive values.  u8 is an integer; u32 and u64 are big-endian         *)
(* sequences of 16-bit limbs (2 and 4 limbs), so that the full width is    *)
(* kept.                                                                   *)
(***************************************************************************)
LimbBase == 256 * 256

U8Values == {0, 1, 2, 255}

U32Values == { <<0, 0>>, <<0, 1>>, <<0, 255>>, <<0, 256>>, <<1, 0>>,
               <<65535, 65535>> }

\* [u8; 4] checksums
SampleChecksums ==
    { <<222, 173, 190, 239>>, <<254, 237, 250, 206>>, <<0, 10, 1, 255>>,
      <<255, 255, 255, 0>> }

\* values of an upstream type the wrapper never looks into (sub-errors,
\* transactions, ...): opaque, told apart by id
Opaque(type) == {[type |-> type, id |-> i] : i \in 1..MaxOpaque}

\* the payload the upstream attaches to a variant the mapper does not name
UnlistedErr == [variant |-> "Unlisted", inner |-> [type |-> "unknown", id |-> 1]]

(***************************************************************************)
(* Formatting                                                              *)
(***************************************************************************)
HexDigits == <<"0", "1", "2", "3", "4", "5", "6", "7",
               "8", "9", "a", "b", "c", "d", "e", "f">>

\* the two lowercase hex digits of one byte, high nibble first
ByteToLowerHex(b) == <<HexDigits[(b \div 16) + 1], HexDigits[(b % 16) + 1]>>

\* faulty variant: each byte formatted without zero padding ("{:x}")
ToLowerHexStringUnpadded(bytes) ==
    LET RECURSIVE go(_)
        go(s) == IF s = <<>> THEN <<>>
                 ELSE (IF Head(s) < 16 THEN <<HexDigits[Head(s) + 1]>>
                       ELSE ByteToLowerHex(Head(s))) \o go(Tail(s))
    IN go(bytes)

\* DisplayHex::to_lower_hex_string: every byte in order, two digits each
ToLowerHexString(bytes) ==
    LET RECURSIVE go(_)
        go(s) == IF s = <<>> THEN <<>>
                 ELSE ByteToLowerHex(Head(s)) \o go(Tail(s))
    IN go(bytes)

\* faulty variant: the payload formatted with Debug ("{:?}") instead of Display
to_string_debug(payload) == [fmt |-> "Debug", of |-> payload]

\* e.to_string(): the text produced by the payload's Display impl.  The
\* wording belongs to the upstream; the model keeps which payload was
\* formatted and by which trait.
to_string(payload) == [fmt |-> "Display", of |-> payload]

(***************************************************************************)
(* Stable error enums: variant name -> names of the variant's fields       *)
(***************************************************************************)
AddressParseErrorDecl ==
    [ Base58 |-> {}, Bech32 |-> {},
      WitnessVersion |-> {"error_message"},
      WitnessProgram |-> {"error_message"},
      UnknownHrp |-> {}, LegacyAddressTooLong |-> {},
      InvalidBase58PayloadLength |-> {}, InvalidLegacyPrefix |-> {},
      NetworkValidation |-> {}, OtherAddressParseErr |-> {} ]

FeeRateErrorDecl == [ ArithmeticOverflow |-> {} ]

FromScriptErrorDecl ==
    [ UnrecognizedScript |-> {},
      WitnessProgram |-> {"error_message"},
      WitnessVersion |-> {"error_message"},
      OtherFromScriptErr |-> {} ]

ParseAmountErrorDecl ==
    [ OutOfRange |-> {}, TooPrecise |-> {}, MissingDigits |-> {},
      InputTooLarge |-> {}, InvalidCharacter |-> {"error_message"},
      OtherParseAmountErr |-> {} ]

EncodeErrorDecl ==
    [ Io |-> {}, OversizedVectorAllocation |-> {},
      InvalidChecksum |-> {"expected", "actual"},
      NonMinimalVarInt |-> {}, ParseFailed |-> {},
      UnsupportedSegwitFlag |-> {"flag"}, OtherEncodeErr |-> {} ]

PsbtErrorDecl ==
    [ InvalidMagic |-> {}, MissingUtxo |-> {}, InvalidSeparator |-> {},
      PsbtUtxoOutOfBounds |-> {}, InvalidKey |-> {"key"},
      InvalidProprietaryKey |-> {}, DuplicateKey |-> {"key"},
      UnsignedTxHasScriptSigs |-> {}, UnsignedTxHasScriptWitnesses |-> {},
      MustHaveUnsignedTx |-> {}, NoMorePairs |-> {},
      UnexpectedUnsignedTx |-> {}, NonStandardSighashType |-> {"sighash"},
      InvalidHash |-> {"hash"}, InvalidPreimageHashPair |-> {},
      CombineInconsistentKeySources |-> {"xpub"},
      ConsensusEncoding |-> {"encoding_error"},
      NegativeFee |-> {}, FeeOverflow |-> {},
      InvalidPublicKey |-> {"error_message"},
      InvalidSecp256k1PublicKey |-> {"secp256k1_error"},
      InvalidXOnlyPublicKey |-> {},
      InvalidEcdsaSignature |-> {"error_message"},
      InvalidTaprootSignature |-> {"error_message"},
      InvalidControlBlock |-> {}, InvalidLeafVersion |-> {},
      Taproot |-> {}, TapTree |-> {"error_message"}, XPubKey |-> {},
      Version |-> {"error_message"}, PartialDataConsumption |-> {},
      Io |-> {"error_message"}, OtherPsbtErr |-> {} ]

PsbtParseErrorDecl ==
    [ PsbtEncoding |-> {"error_message"},
      Base64Encoding |-> {"error_message"} ]

ExtractTxErrorDecl ==
    [ AbsurdFeeRate |-> {"fee_rate"}, MissingInputValue |-> {},
      SendingTooMuch |-> {}, OtherExtractTxErr |-> {} ]

Families ==
    { "AddressParseError", "FeeRateError", "FromScriptError",
      "ParseAmountError", "EncodeError", "PsbtError", "PsbtParseError",
      "ExtractTxError" }

Decl(family) ==
    CASE family = "AddressParseError" -> AddressParseErrorDecl
      [] family = "FeeRateError"      -> FeeRateErrorDecl
      [] family = "FromScriptError"   -> FromScriptErrorDecl
      [] family = "ParseAmountError"  -> ParseAmountErrorDecl
      [] family = "EncodeError"       -> EncodeErrorDecl
      [] family = "PsbtError"         -> PsbtErrorDecl
      [] family = "PsbtParseError"    -> PsbtParseErrorDecl
      [] family = "ExtractTxError"    -> ExtractTxErrorDecl

\* the fields a stable error value carries
Payload(e) == DOMAIN e \ {"family", "variant"}

\* a value of one of the stable enums, as declared
WellFormed(e) ==
    /\ e.family \in Families
    /\ e.variant \in DOMAIN Decl(e.family)
    /\ Payload(e) = Decl(e.family)[e.variant]

\* the outcome of unreachable!(): the thread panics, no value is returned
Panic == [panic |-> "unreachable"]

IsPanic(r) == "panic" \in DOMAIN r

(***************************************************************************)
(* Upstream error types (the values the wrapped library can construct)     *)
(***************************************************************************)
\* variants of an upstream enum that carry one payload the mapper may read
Tuple(variants, type) ==
    {[variant |-> v, inner |-> e] : v \in variants, e \in Opaque(type)}

Unit(variants) == {[variant |-> v] : v \in variants}

BitcoinParseErrorValues ==
    Tuple({"Base58"}, "base58::Error")
    \cup Tuple({"Bech32"}, "Bech32Error")
    \cup Tuple({"WitnessVersion"}, "witness_version::TryFromError")
    \cup Tuple({"WitnessProgram"}, "witness_program::Error")
    \cup Tuple({"UnknownHrp"}, "UnknownHrpError")
    \cup Tuple({"LegacyAddressTooLong"}, "LegacyAddressTooLongError")
    \cup Tuple({"InvalidBase58PayloadLength"}, "InvalidBase58PayloadLengthError")
    \cup Tuple({"InvalidLegacyPrefix"}, "InvalidLegacyPrefixError")
    \cup Tuple({"NetworkValidation"}, "NetworkValidationError")
    \cup {UnlistedErr}

BitcoinFromScriptErrorValues ==
    Unit({"UnrecognizedScript"})
    \cup Tuple({"WitnessProgram"}, "witness_program::Error")
    \cup Tuple({"WitnessVersion"}, "witness_version::TryFromError")
    \cup {UnlistedErr}

\* a char of the rejected input
Chars == {[type |-> "char", ch |-> c] : c \in {"x", "."}}

\* The payload of InvalidCharacter.  The arms bind a payload for every
\* variant (OutOfRange(_), ..., InvalidCharacter(c)): in the upstream whose
\* variants all carry one, InvalidCharacter carries an error struct that
\* holds the offending char and where it stood, not a bare char.
InvalidCharacterErrorValues ==
    {[type |-> "InvalidCharacterError", invalid_char |-> c, position |-> p]
        : c \in Chars, p \in {0, 3}}

BitcoinParseAmountErrorValues ==
    Tuple({"OutOfRange"}, "OutOfRangeError")
    \cup Tuple({"TooPrecise"}, "TooPreciseError")
    \cup Tuple({"MissingDigits"}, "MissingDigitsError")
    \cup Tuple({"InputTooLarge"}, "InputTooLargeError")
    \cup {[variant |-> "InvalidCharacter", inner |-> e]
            : e \in InvalidCharacterErrorValues}
    \cup {UnlistedErr}

BitcoinEncodeErrorValues ==
    Tuple({"Io"}, "io::Error")
    \cup {[variant |-> "OversizedVectorAllocation", requested |-> r, max |-> 4000000]
            : r \in {4000001, 2147483647}}
    \cup {[variant |-> "InvalidChecksum", expected |-> e, actual |-> a]
            : e \in SampleChecksums, a \in SampleChecksums}
    \cup Unit({"NonMinimalVarInt"})
    \cup Tuple({"ParseFailed"}, "static str")
    \cup {[variant |-> "UnsupportedSegwitFlag", flag |-> f] : f \in U8Values}
    \cup {UnlistedErr}

\* raw::Key { type_value, key }
RawKeys == { [type |-> "raw::Key", type_value |-> 0, key |-> <<1, 2>>],
             [type |-> "raw::Key", type_value |-> 2, key |-> <<2, 1>>] }

BitcoinPsbtErrorValues ==
    Unit({"InvalidMagic", "MissingUtxo", "InvalidSeparator",
          "PsbtUtxoOutOfbounds", "InvalidProprietaryKey",
          "UnsignedTxHasScriptSigs", "UnsignedTxHasScriptWitnesses",
          "MustHaveUnsignedTx", "NoMorePairs", "NegativeFee", "FeeOverflow",
          "InvalidXOnlyPublicKey", "InvalidControlBlock",
          "InvalidLeafVersion", "PartialDataConsumption"})
    \cup {[variant |-> v, inner |-> k] : v \in {"InvalidKey", "DuplicateKey"},
                                         k \in RawKeys}
    \cup {[variant |-> "UnexpectedUnsignedTx", expected_tx |-> e, actual_tx |-> a]
            : e \in Opaque("Transaction"), a \in Opaque("Transaction")}
    \cup {[variant |-> "NonStandardSighashType", sighash |-> n] : n \in U32Values}
    \cup Tuple({"InvalidHash"}, "FromSliceError")
    \cup {[variant |-> "InvalidPreimageHashPair", hash_type |-> h]
            : h \in {"Ripemd", "Sha256", "Hash160", "Hash256"}}
    \cup Tuple({"CombineInconsistentKeySources"}, "Xpub")
    \cup Tuple({"ConsensusEncoding"}, "encode::Error")
    \cup Tuple({"InvalidPublicKey"}, "FromSliceError")
    \cup Tuple({"InvalidSecp256k1PublicKey"}, "secp256k1::Error")
    \cup Tuple({"InvalidEcdsaSignature"}, "ecdsa::Error")
    \cup Tuple({"InvalidTaprootSignature"}, "SigFromSliceError")
    \cup Tuple({"Taproot", "XPubKey"}, "static str")
    \cup Tuple({"TapTree"}, "IncompleteBuilderError")
    \cup Tuple({"Version"}, "static str")
    \cup Tuple({"Io"}, "io::Error")
    \cup {UnlistedErr}

BitcoinPsbtParseErrorValues ==
    Tuple({"PsbtEncoding"}, "psbt::Error")
    \cup Tuple({"Base64Encoding"}, "base64::DecodeError")
    \cup {UnlistedErr}

BitcoinExtractTxErrorValues ==
    {[variant |-> "AbsurdFeeRate", fee_rate |-> f, tx |-> t]
        : f \in Opaque("FeeRate"), t \in Opaque("Transaction")}
    \cup {[variant |-> "MissingInputValue", tx |-> t] : t \in Opaque("Transaction")}
    \cup {[variant |-> "SendingTooMuch", psbt |-> q] : q \in Opaque("Psbt")}
    \cup {UnlistedErr}

UpstreamValues(family) ==
    CASE family = "AddressParseError" -> BitcoinParseErrorValues
      [] family = "FromScriptError"   -> BitcoinFromScriptErrorValues
      [] family = "ParseAmountError"  -> BitcoinParseAmountErrorValues
      [] family = "EncodeError"       -> BitcoinEncodeErrorValues
      [] family = "PsbtError"         -> BitcoinPsbtErrorValues
      [] family = "PsbtParseError"    -> BitcoinPsbtParseErrorValues
      [] family = "ExtractTxError"    -> BitcoinExtractTxErrorValues
      [] family = "FeeRateError"      -> {}

(***************************************************************************)
(* The upstream variants each mapper's match names in an arm of its own    *)
(***************************************************************************)
EnumeratedVariants(family) ==
    CASE family = "AddressParseError" ->
            {"Base58", "Bech32", "WitnessVersion", "WitnessProgram",
             "UnknownHrp", "LegacyAddressTooLong",
             "InvalidBase58PayloadLength", "InvalidLegacyPrefix",
             "NetworkValidation"}
      [] family = "FromScriptError" ->
            {"UnrecognizedScript", "WitnessProgram", "WitnessVersion"}
      [] family = "ParseAmountError" ->
            {"OutOfRange", "TooPrecise", "MissingDigits", "InputTooLarge",
             "InvalidCharacter"}
      [] family = "EncodeError" ->
            {"Io", "OversizedVectorAllocation", "InvalidChecksum",
             "NonMinimalVarInt", "ParseFailed", "UnsupportedSegwitFlag"}
      [] family = "PsbtError" ->
            {"InvalidMagic", "MissingUtxo", "InvalidSeparator",
             "PsbtUtxoOutOfbounds", "InvalidKey", "InvalidProprietaryKey",
             "DuplicateKey", "UnsignedTxHasScriptSigs",
             "UnsignedTxHasScriptWitnesses", "MustHaveUnsignedTx",
             "NoMorePairs", "UnexpectedUnsignedTx", "NonStandardSighashType",
             "InvalidHash", "InvalidPreimageHashPair",
             "CombineInconsistentKeySources", "ConsensusEncoding",
             "NegativeFee", "FeeOverflow", "InvalidPublicKey",
             "InvalidSecp256k1PublicKey", "InvalidXOnlyPublicKey",
             "InvalidEcdsaSignature", "InvalidTaprootSignature",
             "InvalidControlBlock", "InvalidLeafVersion", "Taproot",
             "TapTree", "XPubKey", "Version", "PartialDataConsumption", "Io"}
      [] family = "PsbtParseError" -> {"PsbtEncoding", "Base64Encoding"}
      [] family = "ExtractTxError" ->
            {"AbsurdFeeRate", "MissingInputValue", "SendingTooMuch"}
      [] family = "FeeRateError" -> {}

(***************************************************************************)
(* The family mappers: impl From<Upstream> for Stable                      *)
(***************************************************************************)

\* faulty variant: the Bech32 arm pasted from the Base58 arm
AddressParseErrorFromPasted(error) ==
    LET v == error.variant
        E(name) == [family |-> "AddressParseError", variant |-> name]
    IN CASE v = "Base58" -> E("Base58")
         [] v = "Bech32" -> E("Base58")
         [] v = "WitnessVersion" ->
                [family |-> "AddressParseError", variant |-> "WitnessVersion",
                 error_message |-> to_string(error.inner)]
         [] v = "WitnessProgram" ->
                [family |-> "AddressParseError", variant |-> "WitnessProgram",
                 error_message |-> to_string(error.inner)]
         [] v = "UnknownHrp" -> E("UnknownHrp")
         [] v = "LegacyAddressTooLong" -> E("LegacyAddressTooLong")
         [] v = "InvalidBase58PayloadLength" -> E("InvalidBase58PayloadLength")
         [] v = "InvalidLegacyPrefix" -> E("InvalidLegacyPrefix")
         [] v = "NetworkValidation" -> E("NetworkValidation")
         [] OTHER -> E("OtherAddressParseErr")

AddressParseErrorFrom(error) ==
    LET v == error.variant
        E(name) == [family |-> "AddressParseError", variant |-> name]
    IN CASE v = "Base58" -> E("Base58")
         [] v = "Bech32" -> E("Bech32")
         [] v = "WitnessVersion" ->
                [family |-> "AddressParseError", variant |-> "WitnessVersion",
                 error_message |-> to_string(error.inner)]
         [] v = "WitnessProgram" ->
                [family |-> "AddressParseError", variant |-> "WitnessProgram",
                 error_message |-> to_string(error.inner)]
         [] v = "UnknownHrp" -> E("UnknownHrp")
         [] v = "LegacyAddressTooLong" -> E("LegacyAddressTooLong")
         [] v = "InvalidBase58PayloadLength" -> E("InvalidBase58PayloadLength")
         [] v = "InvalidLegacyPrefix" -> E("InvalidLegacyPrefix")
         [] v = "NetworkValidation" -> E("NetworkValidation")
         [] OTHER -> E("OtherAddressParseErr")

\* faulty variant: unlisted variants folded into UnrecognizedScript
FromScriptErrorFromCollapsed(error) ==
    LET v == error.variant
        E(name) == [family |-> "FromScriptError", variant |-> name]
    IN CASE v = "UnrecognizedScript" -> E("UnrecognizedScript")
         [] v = "WitnessProgram" ->
                [family |-> "FromScriptError", variant |-> "WitnessProgram",
                 error_message |-> to_string(error.inner)]
         [] v = "WitnessVersion" ->
                [family |-> "FromScriptError", variant |-> "WitnessVersion",
                 error_message |-> to_string(error.inner)]
         [] OTHER -> E("UnrecognizedScript")

FromScriptErrorFrom(error) ==
    LET v == error.variant
        E(name) == [family |-> "FromScriptError", variant |-> name]
    IN CASE v = "UnrecognizedScript" -> E("UnrecognizedScript")
         [] v = "WitnessProgram" ->
                [family |-> "FromScriptError", variant |-> "WitnessProgram",
                 error_message |-> to_string(error.inner)]
         [] v = "WitnessVersion" ->
                [family |-> "FromScriptError", variant |-> "WitnessVersion",
                 error_message |-> to_string(error.inner)]
         [] OTHER -> E("OtherFromScriptErr")

ParseAmountErrorFromBareChar(error) ==
    LET v == error.variant
        E(name) == [family |-> "ParseAmountError", variant |-> name]
    IN CASE v = "OutOfRange" -> E("OutOfRange")
         [] v = "TooPrecise" -> E("TooPrecise")
         [] v = "MissingDigits" -> E("MissingDigits")
         [] v = "InputTooLarge" -> E("InputTooLarge")
         [] v = "InvalidCharacter" ->
                [family |-> "ParseAmountError", variant |-> "InvalidCharacter",
                 error_message |-> to_string(error.inner.invalid_char)]
         [] OTHER -> E("OtherParseAmountErr")

ParseAmountErrorFrom(error) ==
    LET v == error.variant
        E(name) == [family |-> "ParseAmountError", variant |-> name]
    IN CASE v = "OutOfRange" -> E("OutOfRange")
         [] v = "TooPrecise" -> E("TooPrecise")
         [] v = "MissingDigits" -> E("MissingDigits")
         [] v = "InputTooLarge" -> E("InputTooLarge")
         [] v = "InvalidCharacter" ->
                [family |-> "ParseAmountError", variant |-> "InvalidCharacter",
                 error_message |-> to_string(error.inner)]
         [] OTHER -> E("OtherParseAmountErr")

EncodeErrorFrom(error) ==
    LET v == error.variant
        E(name) == [family |-> "EncodeError", variant |-> name]
    IN CASE v = "Io" -> E("Io")
         [] v = "OversizedVectorAllocation" -> E("OversizedVectorAllocation")
         [] v = "InvalidChecksum" ->
                [family |-> "EncodeError", variant |-> "InvalidChecksum",
                 expected |-> ToLowerHexString(error.expected),
                 actual |-> ToLowerHexString(error.actual)]
         [] v = "NonMinimalVarInt" -> E("NonMinimalVarInt")
         [] v = "ParseFailed" -> E("ParseFailed")
         [] v = "UnsupportedSegwitFlag" ->
                [family |-> "EncodeError", variant |-> "UnsupportedSegwitFlag",
                 flag |-> error.flag]
         [] OTHER -> E("OtherEncodeErr")

\* faulty variant: the Io arm drops the io::Error, as EncodeError::Io does
PsbtErrorFromIoDropped(error) ==
    LET v == error.variant
        E(name) == [family |-> "PsbtError", variant |-> name]
        M(name) == [family |-> "PsbtError", variant |-> name,
                    error_message |-> to_string(error.inner)]
    IN CASE v = "InvalidMagic" -> E("InvalidMagic")
         [] v = "MissingUtxo" -> E("MissingUtxo")
         [] v = "InvalidSeparator" -> E("InvalidSeparator")
         [] v = "PsbtUtxoOutOfbounds" -> E("PsbtUtxoOutOfBounds")
         [] v = "InvalidKey" ->
                [family |-> "PsbtError", variant |-> "InvalidKey",
                 key |-> to_string(error.inner)]
         [] v = "InvalidProprietaryKey" -> E("InvalidProprietaryKey")
         [] v = "DuplicateKey" ->
                [family |-> "PsbtError", variant |-> "DuplicateKey",
                 key |-> to_string(error.inner)]
         [] v = "UnsignedTxHasScriptSigs" -> E("UnsignedTxHasScriptSigs")
         [] v = "UnsignedTxHasScriptWitnesses" -> E("UnsignedTxHasScriptWitnesses")
         [] v = "MustHaveUnsignedTx" -> E("MustHaveUnsignedTx")
         [] v = "NoMorePairs" -> E("NoMorePairs")
         [] v = "UnexpectedUnsignedTx" -> E("UnexpectedUnsignedTx")
         [] v = "NonStandardSighashType" ->
                [family |-> "PsbtError", variant |-> "NonStandardSighashType",
                 sighash |-> error.sighash]
         [] v = "InvalidHash" ->
                [family |-> "PsbtError", variant |-> "InvalidHash",
                 hash |-> to_string(error.inner)]
         [] v = "InvalidPreimageHashPair" -> E("InvalidPreimageHashPair")
         [] v = "CombineInconsistentKeySources" ->
                [family |-> "PsbtError", variant |-> "CombineInconsistentKeySources",
                 xpub |-> to_string(error.inner)]
         [] v = "ConsensusEncoding" ->
                [family |-> "PsbtError", variant |-> "ConsensusEncoding",
                 encoding_error |-> to_string(error.inner)]
         [] v = "NegativeFee" -> E("NegativeFee")
         [] v = "FeeOverflow" -> E("FeeOverflow")
         [] v = "InvalidPublicKey" -> M("InvalidPublicKey")
         [] v = "InvalidSecp256k1PublicKey" ->
                [family |-> "PsbtError", variant |-> "InvalidSecp256k1PublicKey",
                 secp256k1_error |-> to_string(error.inner)]
         [] v = "InvalidXOnlyPublicKey" -> E("InvalidXOnlyPublicKey")
         [] v = "InvalidEcdsaSignature" -> M("InvalidEcdsaSignature")
         [] v = "InvalidTaprootSignature" -> M("InvalidTaprootSignature")
         [] v = "InvalidControlBlock" -> E("InvalidControlBlock")
         [] v = "InvalidLeafVersion" -> E("InvalidLeafVersion")
         [] v = "Taproot" -> E("Taproot")
         [] v = "TapTree" -> M("TapTree")
         [] v = "XPubKey" -> E("XPubKey")
         [] v = "Version" -> M("Version")
         [] v = "PartialDataConsumption" -> E("PartialDataConsumption")
         [] v = "Io" -> E("Io")
         [] OTHER -> E("OtherPsbtErr")

\* faulty variant: the sighash narrowed to 16 bits (`sighash as u16`)
PsbtErrorFromTruncating(error) ==
    LET v == error.variant
        E(name) == [family |-> "PsbtError", variant |-> name]
        M(name) == [family |-> "PsbtError", variant |-> name,
                    error_message |-> to_string(error.inner)]
    IN CASE v = "InvalidMagic" -> E("InvalidMagic")
         [] v = "MissingUtxo" -> E("MissingUtxo")
         [] v = "InvalidSeparator" -> E("InvalidSeparator")
         [] v = "PsbtUtxoOutOfbounds" -> E("PsbtUtxoOutOfBounds")
         [] v = "InvalidKey" ->
                [family |-> "PsbtError", variant |-> "InvalidKey",
                 key |-> to_string(error.inner)]
         [] v = "InvalidProprietaryKey" -> E("InvalidProprietaryKey")
         [] v = "DuplicateKey" ->
                [family |-> "PsbtError", variant |-> "DuplicateKey",
                 key |-> to_string(error.inner)]
         [] v = "UnsignedTxHasScriptSigs" -> E("UnsignedTxHasScriptSigs")
         [] v = "UnsignedTxHasScriptWitnesses" -> E("UnsignedTxHasScriptWitnesses")
         [] v = "MustHaveUnsignedTx" -> E("MustHaveUnsignedTx")
         [] v = "NoMorePairs" -> E("NoMorePairs")
         [] v = "UnexpectedUnsignedTx" -> E("UnexpectedUnsignedTx")
         [] v = "NonStandardSighashType" ->
                [family |-> "PsbtError", variant |-> "NonStandardSighashType",
                 sighash |-> <<0, error.sighash[2]>>]
         [] v = "InvalidHash" ->
                [family |-> "PsbtError", variant |-> "InvalidHash",
                 hash |-> to_string(error.inner)]
         [] v = "InvalidPreimageHashPair" -> E("InvalidPreimageHashPair")
         [] v = "CombineInconsistentKeySources" ->
                [family |-> "PsbtError", variant |-> "CombineInconsistentKeySources",
                 xpub |-> to_string(error.inner)]
         [] v = "ConsensusEncoding" ->
                [family |-> "PsbtError", variant |-> "ConsensusEncoding",
                 encoding_error |-> to_string(error.inner)]
         [] v = "NegativeFee" -> E("NegativeFee")
         [] v = "FeeOverflow" -> E("FeeOverflow")
         [] v = "InvalidPublicKey" -> M("InvalidPublicKey")
         [] v = "InvalidSecp256k1PublicKey" ->
                [family |-> "PsbtError", variant |-> "InvalidSecp256k1PublicKey",
                 secp256k1_error |-> to_string(error.inner)]
         [] v = "InvalidXOnlyPublicKey" -> E("InvalidXOnlyPublicKey")
         [] v = "InvalidEcdsaSignature" -> M("InvalidEcdsaSignature")
         [] v = "InvalidTaprootSignature" -> M("InvalidTaprootSignature")
         [] v = "InvalidControlBlock" -> E("InvalidControlBlock")
         [] v = "InvalidLeafVersion" -> E("InvalidLeafVersion")
         [] v = "Taproot" -> E("Taproot")
         [] v = "TapTree" -> M("TapTree")
         [] v = "XPubKey" -> E("XPubKey")
         [] v = "Version" -> M("Version")
         [] v = "PartialDataConsumption" -> E("PartialDataConsumption")
         [] v = "Io" -> M("Io")
         [] OTHER -> E("OtherPsbtErr")

PsbtErrorFrom(error) ==
    LET v == error.variant
        E(name) == [family |-> "PsbtError", variant |-> name]
        M(name) == [family |-> "PsbtError", variant |-> name,
                    error_message |-> to_string(error.inner)]
    IN CASE v = "InvalidMagic" -> E("InvalidMagic")
         [] v = "MissingUtxo" -> E("MissingUtxo")
         [] v = "InvalidSeparator" -> E("InvalidSeparator")
         [] v = "PsbtUtxoOutOfbounds" -> E("PsbtUtxoOutOfBounds")
         [] v = "InvalidKey" ->
                [family |-> "PsbtError", variant |-> "InvalidKey",
                 key |-> to_string(error.inner)]
         [] v = "InvalidProprietaryKey" -> E("InvalidProprietaryKey")
         [] v = "DuplicateKey" ->
                [family |-> "PsbtError", variant |-> "DuplicateKey",
                 key |-> to_string(error.inner)]
         [] v = "UnsignedTxHasScriptSigs" -> E("UnsignedTxHasScriptSigs")
         [] v = "UnsignedTxHasScriptWitnesses" -> E("UnsignedTxHasScriptWitnesses")
         [] v = "MustHaveUnsignedTx" -> E("MustHaveUnsignedTx")
         [] v = "NoMorePairs" -> E("NoMorePairs")
         [] v = "UnexpectedUnsignedTx" -> E("UnexpectedUnsignedTx")
         [] v = "NonStandardSighashType" ->
                [family |-> "PsbtError", variant |-> "NonStandardSighashType",
                 sighash |-> error.sighash]
         [] v = "InvalidHash" ->
                [family |-> "PsbtError", variant |-> "InvalidHash",
                 hash |-> to_string(error.inner)]
         [] v = "InvalidPreimageHashPair" -> E("InvalidPreimageHashPair")
         [] v = "CombineInconsistentKeySources" ->
                [family |-> "PsbtError", variant |-> "CombineInconsistentKeySources",
                 xpub |-> to_string(error.inner)]
         [] v = "ConsensusEncoding" ->
                [family |-> "PsbtError", variant |-> "ConsensusEncoding",
                 encoding_error |-> to_string(error.inner)]
         [] v = "NegativeFee" -> E("NegativeFee")
         [] v = "FeeOverflow" -> E("FeeOverflow")
         [] v = "InvalidPublicKey" -> M("InvalidPublicKey")
         [] v = "InvalidSecp256k1PublicKey" ->
                [family |-> "PsbtError", variant |-> "InvalidSecp256k1PublicKey",
                 secp256k1_error |-> to_string(error.inner)]
         [] v = "InvalidXOnlyPublicKey" -> E("InvalidXOnlyPublicKey")
         [] v = "InvalidEcdsaSignature" -> M("InvalidEcdsaSignature")
         [] v = "InvalidTaprootSignature" -> M("InvalidTaprootSignature")
         [] v = "InvalidControlBlock" -> E("InvalidControlBlock")
         [] v = "InvalidLeafVersion" -> E("InvalidLeafVersion")
         [] v = "Taproot" -> E("Taproot")
         [] v = "TapTree" -> M("TapTree")
         [] v = "XPubKey" -> E("XPubKey")
         [] v = "Version" -> M("Version")
         [] v = "PartialDataConsumption" -> E("PartialDataConsumption")
         [] v = "Io" -> M("Io")
         [] OTHER -> E("OtherPsbtErr")

PsbtParseErrorFrom(error) ==
    LET v == error.variant
    IN CASE v = "PsbtEncoding" ->
                [family |-> "PsbtParseError", variant |-> "PsbtEncoding",
                 error_message |-> to_string(error.inner)]
         [] v = "Base64Encoding" ->
                [family |-> "PsbtParseError", variant |-> "Base64Encoding",
                 error_message |-> to_string(error.inner)]
         [] OTHER -> Panic

\* faulty variant: the wildcard arm asserts unreachable!() as in PsbtParseError
ExtractTxErrorFromUnreachable(error) ==
    LET v == error.variant
        E(name) == [family |-> "ExtractTxError", variant |-> name]
    IN CASE v = "AbsurdFeeRate" ->
                [family |-> "ExtractTxError", variant |-> "AbsurdFeeRate",
                 fee_rate |-> to_string(error.fee_rate)]
         [] v = "MissingInputValue" -> E("MissingInputValue")
         [] v = "SendingTooMuch" -> E("SendingTooMuch")
         [] OTHER -> Panic

ExtractTxErrorFrom(error) ==
    LET v == error.variant
        E(name) == [family |-> "ExtractTxError", variant |-> name]
    IN CASE v = "AbsurdFeeRate" ->
                [family |-> "ExtractTxError", variant |-> "AbsurdFeeRate",
                 fee_rate |-> to_string(error.fee_rate)]
         [] v = "MissingInputValue" -> E("MissingInputValue")
         [] v = "SendingTooMuch" -> E("SendingTooMuch")
         [] OTHER -> E("OtherExtractTxErr")

\* the families that have a mapper (FeeRateError is built in place)
MapperFamilies == Families \ {"FeeRateError"}

From(family, error) ==
    CASE family = "AddressParseError" -> AddressParseErrorFrom(error)
      [] family = "FromScriptError"   -> FromScriptErrorFrom(error)
      [] family = "ParseAmountError"  -> ParseAmountErrorFrom(error)
      [] family = "EncodeError"       -> EncodeErrorFrom(error)
      [] family = "PsbtError"         -> PsbtErrorFrom(error)
      [] family = "PsbtParseError"    -> PsbtParseErrorFrom(error)
      [] family = "ExtractTxError"    -> ExtractTxErrorFrom(error)

(***************************************************************************)
(* Results                                                                 *)
(***************************************************************************)
Ok(v) == [tag |-> "Ok", value |-> v]

Err(e) == [tag |-> "Err", error |-> e]

Panicked == [tag |-> "Panic"]

\* `?` / map_err on an upstream Err(e): convert with the family's From and
\* return early; a panic inside From unwinds through the wrapper
Propagate(family, e) ==
    LET m == From(family, e)
    IN IF IsPanic(m) THEN Panicked ELSE Err(m)

Called(name, outcome) == [call |-> name, outcome |-> outcome]

(***************************************************************************)
(* u64 arithmetic on 4 big-endian 16-bit limbs                             *)
(***************************************************************************)
U64Values ==
    { <<0, 0, 0, 0>>, <<0, 0, 0, 1>>, <<0, 0, 1, 0>>,
      <<0, 65535, 65535, 65535>>, <<261, 65535, 65535, 65535>>,
      <<262, 9437, 12058, 40893>>, <<262, 9437, 12058, 40894>>,
      <<262, 9437, 12058, 40895>>, <<262, 9438, 0, 0>>, <<263, 0, 0, 0>>,
      <<65535, 65535, 65535, 65535>> }

\* u64::checked_mul(k): [digits, carry]; the product fits iff carry = 0
RECURSIVE MulLimbs(_, _, _)
MulLimbs(limbs, k, carry) ==
    IF limbs = <<>> THEN [digits |-> <<>>, carry |-> carry]
    ELSE LET t == limbs[Len(limbs)] * k + carry
             rest == MulLimbs(SubSeq(limbs, 1, Len(limbs) - 1), k, t \div LimbBase)
         IN [digits |-> Append(rest.digits, t % LimbBase), carry |-> rest.carry]

Some(v) == [some |-> TRUE, value |-> v]

None == [some |-> FALSE]

checked_mul(limbs, k) ==
    LET p == MulLimbs(limbs, k, 0)
    IN IF p.carry = 0 THEN Some(p.digits) ELSE None

\* a single-field wrapper struct around an upstream value
Wrap(name, core) == [type |-> name, inner |-> core]

\* a function that returns Self, not a Result
Value(v) == [tag |-> "Value", value |-> v]

\* bitcoin::FeeRate::from_sat_per_vb: sat/vB * (1000 / 4) = sat/kwu, checked
bitcoin_FeeRate_from_sat_per_vb(sat_vb) ==
    LET kwu == checked_mul(sat_vb, 1000 \div 4)
    IN IF kwu.some
       THEN Some([type |-> "bitcoin::FeeRate", sat_per_kwu |-> kwu.value])
       ELSE None

(***************************************************************************)
(* The wrapper operations of lib.rs.  Each returns the upstream calls it   *)
(* made and its result.  Where the upstream's answer is not a function of  *)
(* state the wrapper holds, it is the parameter `out`.                     *)
(***************************************************************************)

\* faulty variant: the product taken with wrapping multiplication, never None
FeeRate_from_sat_per_vb_wrapping(sat_per_vb) ==
    LET fee_rate == Some([type |-> "bitcoin::FeeRate",
                          sat_per_kwu |-> MulLimbs(sat_per_vb, 250, 0).digits])
    IN [upstream |-> <<Called("FeeRate::from_sat_per_vb", fee_rate)>>,
        result |-> IF fee_rate.some
                   THEN Ok(Wrap("FeeRate", fee_rate.value))
                   ELSE Err([family |-> "FeeRateError",
                             variant |-> "ArithmeticOverflow"])]

FeeRate_from_sat_per_vb(sat_per_vb) ==
    LET fee_rate == bitcoin_FeeRate_from_sat_per_vb(sat_per_vb)
    IN [upstream |-> <<Called("FeeRate::from_sat_per_vb", fee_rate)>>,
        result |-> IF fee_rate.some
                   THEN Ok(Wrap("FeeRate", fee_rate.value))
                   ELSE Err([family |-> "FeeRateError",
                             variant |-> "ArithmeticOverflow"])]

FeeRate_from_sat_per_kwu(sat_per_kwu) ==
    LET fee_rate == [type |-> "bitcoin::FeeRate", sat_per_kwu |-> sat_per_kwu]
    IN [upstream |-> <<Called("FeeRate::from_sat_per_kwu", Some(fee_rate))>>,
        result |-> Value(Wrap("FeeRate", fee_rate))]

Network == {"Bitcoin", "Testnet", "Testnet4", "Signet", "Regtest"}

\* address strings, by what bitcoin::Address::from_str answers for them: a
\* parse error, or an unchecked address valid for some networks
UncheckedAddresses ==
    { [type |-> "Address<NetworkUnchecked>", valid_for |-> n]
        : n \in { {"Bitcoin"}, {"Testnet", "Testnet4", "Signet"},
                  {"Testnet", "Testnet4", "Signet", "Regtest"}, {"Regtest"} } }

AddressStrings ==
    {[from_str |-> Ok(a)] : a \in UncheckedAddresses}
    \cup {[from_str |-> Err(e)] : e \in BitcoinParseErrorValues}

\* Address<NetworkUnchecked>::require_network
require_network(address, network) ==
    IF network \in address.valid_for
    THEN Ok([type |-> "Address<NetworkChecked>", valid_for |-> address.valid_for])
    ELSE Err([variant |-> "NetworkValidation",
              inner |-> [type |-> "NetworkValidationError", id |-> 1]])

Address_new_unchecked(address, network) ==
    LET parsed == address.from_str
        first == Called("Address::from_str", parsed)
    IN IF parsed.tag = "Err"
       THEN [upstream |-> <<first>>,
             result |-> Propagate("AddressParseError", parsed.error)]
       ELSE [upstream |-> <<first>>,
             result |-> Ok(Wrap("Address",
                            [type |-> "Address<NetworkChecked>",
                             valid_for |-> parsed.value.valid_for]))]

Address_new(address, network) ==
    LET parsed == address.from_str
        first == Called("Address::from_str", parsed)
    IN IF parsed.tag = "Err"
       THEN [upstream |-> <<first>>,
             result |-> Propagate("AddressParseError", parsed.error)]
       ELSE LET checked == require_network(parsed.value, network)
                second == Called("Address::require_network", checked)
            IN [upstream |-> <<first, second>>,
                result |-> IF checked.tag = "Err"
                           THEN Propagate("AddressParseError", checked.error)
                           ELSE Ok(Wrap("Address", checked.value))]

\* a wrapper that makes one upstream call and applies `?` to its outcome
Single(call, family, type, out) ==
    [upstream |-> <<Called(call, out)>>,
     result |-> IF out.tag = "Err"
                THEN Propagate(family, out.error)
                ELSE Ok(Wrap(type, out.value))]

Address_from_script(out) ==
    Single("Address::from_script", "FromScriptError", "Address", out)

Amount_from_btc(out) ==
    Single("Amount::from_btc", "ParseAmountError", "Amount", out)

Transaction_deserialize(out) ==
    Single("consensus::deserialize", "EncodeError", "Transaction", out)

Psbt_from_unsigned_tx(out) ==
    Single("Psbt::from_unsigned_tx", "PsbtError", "Psbt", out)

Psbt_deserialize(out) ==
    Single("Psbt::deserialize", "PsbtError", "Psbt", out)

Psbt_deserialize_base64(out) ==
    Single("Psbt::from_str", "PsbtParseError", "Psbt", out)

\* bitcoin::Psbt::serialize: the byte encoding of a Psbt value
bitcoin_Psbt_serialize(psbt) == [encoding |-> "psbt", of |-> psbt]

\* Psbt::serialize(&self)
Psbt_serialize(objects, self) ==
    LET bytes == bitcoin_Psbt_serialize(objects[self])
    IN [upstream |-> <<Called("Psbt::serialize", Value(bytes))>>,
        result |-> Value(bytes),
        objects |-> objects]

\* The methods below take &self and work on self.0.clone(): `objects` is the
\* store of Psbt objects the foreign side holds (a handle is an index), and
\* the `objects` they return is the store after the call.

\* Psbt::extract_tx(&self): the upstream consumes the clone
Psbt_extract_tx(objects, self, out) ==
    LET r == Single("Psbt::extract_tx", "ExtractTxError", "Transaction", out)
    IN [upstream |-> r.upstream, result |-> r.result, objects |-> objects]

Psbt_combine_in_place(objects, self, other, out) ==
    [upstream |-> <<Called("Psbt::combine", out)>>,
     result |-> IF out.tag = "Err"
                THEN Propagate("PsbtError", out.error)
                ELSE Ok([type |-> "Psbt", inner |-> out.value,
                         handle |-> Len(objects) + 1]),
     objects |-> IF out.tag = "Ok"
                 THEN Append([objects EXCEPT ![self] = out.value], out.value)
                 ELSE objects]

\* Psbt::combine(&self, other): the upstream merges the clone of other into
\* the local clone of self; on success that local, out.value, is moved into
\* a new object (Arc::new), on failure it is dropped
Psbt_combine(objects, self, other, out) ==
    [upstream |-> <<Called("Psbt::combine", out)>>,
     result |-> IF out.tag = "Err"
                THEN Propagate("PsbtError", out.error)
                ELSE Ok([type |-> "Psbt", inner |-> out.value,
                         handle |-> Len(objects) + 1]),
     objects |-> IF out.tag = "Ok" THEN Append(objects, out.value)
                 ELSE objects]

\* Psbt::fee(&self): the upstream consumes the clone
Psbt_fee(objects, self, out) ==
    LET r == Single("Psbt::fee", "PsbtError", "Amount", out)
    IN [upstream |-> r.upstream, result |-> r.result, objects |-> objects]

\* what an upstream call can answer: a value, or any error of its type
Outcomes(type, family) ==
    {Ok(v) : v \in Opaque(type)} \cup {Err(e) : e \in UpstreamValues(family)}

\* contents of a bitcoin::Psbt: two are enough to tell an object that was
\* written from one that was not
PsbtValues == {[type |-> "bitcoin::Psbt", id |-> i] : i \in {1, 2}}

\* what an upstream call that yields a Psbt can answer
PsbtOutcomes(family) ==
    {Ok(v) : v \in PsbtValues} \cup {Err(e) : e \in UpstreamValues(family)}

(***************************************************************************)
(* State machine: each step is one call across the boundary                *)
(***************************************************************************)
NoInput == [none |-> TRUE]

\* the foreign side holds at most MaxPsbts objects: an object created when
\* it holds that many is released as soon as the call has returned
Held(objects) ==
    IF Len(objects) > MaxPsbts THEN SubSeq(objects, 1, MaxPsbts) ELSE objects

Init ==
    /\ op = "none"
    /\ input = NoInput
    /\ upstream = <<>>
    /\ result = [tag |-> "None"]
    /\ psbts = <<>>

\* what a direct call of a family mapper hands back
Converted(m) == IF IsPanic(m) THEN Panicked ELSE [tag |-> "Returned", error |-> m]

\* AddressParseError::from(error), called on any value of the upstream type
AddressParseErrorFromCall ==
    \E e \in UpstreamValues("AddressParseError") :
        /\ op' = "AddressParseError::from"
        /\ input' = [error |-> e]
        /\ upstream' = <<>>
        /\ result' = Converted(AddressParseErrorFrom(e))
        /\ UNCHANGED psbts

\* FromScriptError::from(error), called on any value of the upstream type
FromScriptErrorFromCall ==
    \E e \in UpstreamValues("FromScriptError") :
        /\ op' = "FromScriptError::from"
        /\ input' = [error |-> e]
        /\ upstream' = <<>>
        /\ result' = Converted(FromScriptErrorFrom(e))
        /\ UNCHANGED psbts

\* ParseAmountError::from(error), called on any value of the upstream type
ParseAmountErrorFromCall ==
    \E e \in UpstreamValues("ParseAmountError") :
        /\ op' = "ParseAmountError::from"
        /\ input' = [error |-> e]
        /\ upstream' = <<>>
        /\ result' = Converted(ParseAmountErrorFrom(e))
        /\ UNCHANGED psbts

\* EncodeError::from(error), called on any value of the upstream type
EncodeErrorFromCall ==
    \E e \in UpstreamValues("EncodeError") :
        /\ op' = "EncodeError::from"
        /\ input' = [error |-> e]
        /\ upstream' = <<>>
        /\ result' = Converted(EncodeErrorFrom(e))
        /\ UNCHANGED psbts

\* PsbtError::from(error), called on any value of the upstream type
PsbtErrorFromCall ==
    \E e \in UpstreamValues("PsbtError") :
        /\ op' = "PsbtError::from"
        /\ input' = [error |-> e]
        /\ upstream' = <<>>
        /\ result' = Converted(PsbtErrorFrom(e))
        /\ UNCHANGED psbts

\* PsbtParseError::from(error), called on any value of the upstream type
PsbtParseErrorFromCall ==
    \E e \in UpstreamValues("PsbtParseError") :
        /\ op' = "PsbtParseError::from"
        /\ input' = [error |-> e]
        /\ upstream' = <<>>
        /\ result' = Converted(PsbtParseErrorFrom(e))
        /\ UNCHANGED psbts

\* ExtractTxError::from(error), called on any value of the upstream type
ExtractTxErrorFromCall ==
    \E e \in UpstreamValues("ExtractTxError") :
        /\ op' = "ExtractTxError::from"
        /\ input' = [error |-> e]
        /\ upstream' = <<>>
        /\ result' = Converted(ExtractTxErrorFrom(e))
        /\ UNCHANGED psbts

FeeRateFromSatPerVb ==
    \E v \in U64Values :
        LET r == FeeRate_from_sat_per_vb(v)
        IN /\ op' = "FeeRate::from_sat_per_vb"
           /\ input' = [sat_per_vb |-> v]
           /\ upstream' = r.upstream
           /\ result' = r.result
           /\ UNCHANGED psbts

FeeRateFromSatPerKwu ==
    \E v \in U64Values :
        LET r == FeeRate_from_sat_per_kwu(v)
        IN /\ op' = "FeeRate::from_sat_per_kwu"
           /\ input' = [sat_per_kwu |-> v]
           /\ upstream' = r.upstream
           /\ result' = r.result
           /\ UNCHANGED psbts

AddressNew ==
    \E a \in AddressStrings, n \in Network :
        LET r == Address_new(a, n)
        IN /\ op' = "Address::new"
           /\ input' = [address |-> a, network |-> n]
           /\ upstream' = r.upstream
           /\ result' = r.result
           /\ UNCHANGED psbts

AddressFromScript ==
    \E out \in Outcomes("bitcoin::Address", "FromScriptError") :
        LET r == Address_from_script(out)
        IN /\ op' = "Address::from_script"
           /\ input' = NoInput
           /\ upstream' = r.upstream
           /\ result' = r.result
           /\ UNCHANGED psbts

AmountFromBtc ==
    \E out \in Outcomes("bitcoin::Amount", "ParseAmountError") :
        LET r == Amount_from_btc(out)
        IN /\ op' = "Amount::from_btc"
           /\ input' = NoInput
           /\ upstream' = r.upstream
           /\ result' = r.result
           /\ UNCHANGED psbts

TransactionDeserialize ==
    \E out \in Outcomes("bitcoin::Transaction", "EncodeError") :
        LET r == Transaction_deserialize(out)
        IN /\ op' = "Transaction::deserialize"
           /\ input' = NoInput
           /\ upstream' = r.upstream
           /\ result' = r.result
           /\ UNCHANGED psbts

PsbtFromUnsignedTx ==
    \E out \in PsbtOutcomes("PsbtError") :
        LET r == Psbt_from_unsigned_tx(out)
        IN /\ op' = "Psbt::from_unsigned_tx"
           /\ input' = NoInput
           /\ upstream' = r.upstream
           /\ result' = r.result
           /\ psbts' = Held(IF r.result.tag = "Ok"
                            THEN Append(psbts, r.result.value.inner)
                            ELSE psbts)

PsbtDeserialize ==
    \E out \in PsbtOutcomes("PsbtError") :
        LET r == Psbt_deserialize(out)
        IN /\ op' = "Psbt::deserialize"
           /\ input' = NoInput
           /\ upstream' = r.upstream
           /\ result' = r.result
           /\ psbts' = Held(IF r.result.tag = "Ok"
                            THEN Append(psbts, r.result.value.inner)
                            ELSE psbts)

PsbtDeserializeBase64 ==
    \E out \in PsbtOutcomes("PsbtParseError") :
        LET r == Psbt_deserialize_base64(out)
        IN /\ op' = "Psbt::deserialize_base64"
           /\ input' = NoInput
           /\ upstream' = r.upstream
           /\ result' = r.result
           /\ psbts' = Held(IF r.result.tag = "Ok"
                            THEN Append(psbts, r.result.value.inner)
                            ELSE psbts)

PsbtSerialize ==
    \E self \in 1..Len(psbts) :
        LET r == Psbt_serialize(psbts, self)
        IN /\ op' = "Psbt::serialize"
           /\ input' = [self |-> self]
           /\ upstream' = r.upstream
           /\ result' = r.result
           /\ psbts' = r.objects

PsbtExtractTx ==
    \E self \in 1..Len(psbts) :
    \E out \in Outcomes("bitcoin::Transaction", "ExtractTxError") :
        LET r == Psbt_extract_tx(psbts, self, out)
        IN /\ op' = "Psbt::extract_tx"
           /\ input' = [self |-> self]
           /\ upstream' = r.upstream
           /\ result' = r.result
           /\ psbts' = r.objects

PsbtCombine ==
    \E self \in 1..Len(psbts), other \in 1..Len(psbts) :
    \E out \in PsbtOutcomes("PsbtError") :
        LET r == Psbt_combine(psbts, self, other, out)
        IN /\ op' = "Psbt::combine"
           /\ input' = [self |-> self, other |-> other]
           /\ upstream' = r.upstream
           /\ result' = r.result
           /\ psbts' = Held(r.objects)

PsbtFee ==
    \E self \in 1..Len(psbts) :
    \E out \in Outcomes("bitcoin::Amount", "PsbtError") :
        LET r == Psbt_fee(psbts, self, out)
        IN /\ op' = "Psbt::fee"
           /\ input' = [self |-> self]
           /\ upstream' = r.upstream
           /\ result' = r.result
           /\ psbts' = r.objects

Next ==
    \/ AddressParseErrorFromCall
    \/ FromScriptErrorFromCall
    \/ ParseAmountErrorFromCall
    \/ EncodeErrorFromCall
    \/ PsbtErrorFromCall
    \/ PsbtParseErrorFromCall
    \/ ExtractTxErrorFromCall
    \/ FeeRateFromSatPerVb
    \/ FeeRateFromSatPerKwu
    \/ AddressNew
    \/ AddressFromScript
    \/ AmountFromBtc
    \/ TransactionDeserialize
    \/ PsbtFromUnsignedTx
    \/ PsbtDeserialize
    \/ PsbtDeserializeBase64
    \/ PsbtSerialize
    \/ PsbtExtractTx
    \/ PsbtCombine
    \/ PsbtFee

Spec == Init /\ [][Next]_vars

(***************************************************************************)
(* Reading a state                                                         *)
(***************************************************************************)
MapperCalls == {f \o "::from" : f \in MapperFamilies}

\* the wrapper operations that return a Result built with a family mapper
WrapperFamily ==
    [ x \in { "Address::new", "Address::from_script", "Amount::from_btc",
              "Transaction::deserialize", "Psbt::from_unsigned_tx",
              "Psbt::deserialize", "Psbt::deserialize_base64",
              "Psbt::extract_tx", "Psbt::combine", "Psbt::fee" } |->
        CASE x \in {"Address::new"} -> "AddressParseError"
          [] x = "Address::from_script" -> "FromScriptError"
          [] x = "Amount::from_btc" -> "ParseAmountError"
          [] x = "Transaction::deserialize" -> "EncodeError"
          [] x = "Psbt::deserialize_base64" -> "PsbtParseError"
          [] x = "Psbt::extract_tx" -> "ExtractTxError"
          [] OTHER -> "PsbtError" ]

FallibleWrappers == DOMAIN WrapperFamily

\* the outcome of the last upstream call the wrapper made
LastOutcome == upstream[Len(upstream)].outcome

\* a family mapper ran in this step: directly, or inside a wrapper whose
\* upstream call failed
Converting ==
    \/ op \in MapperCalls
    \/ op \in FallibleWrappers /\ LastOutcome.tag = "Err"

ConvFamily ==
    IF op \in MapperCalls
    THEN CHOOSE f \in MapperFamilies : op = f \o "::from"
    ELSE WrapperFamily[op]

\* the upstream error the mapper was given
ConvError == IF op \in MapperCalls THEN input.error ELSE LastOutcome.error

\* the mapper returned a stable error (it did not panic)
Mapped == result.tag \in {"Returned", "Err"}

TypeOK ==
    /\ result.tag \in {"None", "Ok", "Err", "Panic", "Returned", "Value"}
    /\ result.tag \in {"Err", "Returned"} => WellFormed(result.error)

(***************************************************************************)
(* C1.  Every family mapper is total: on every upstream value, a variant   *)
(* no arm names included, it returns a stable error and does not panic.    *)
(* The code does not satisfy this: PsbtParseError::from reaches            *)
(* unreachable!() on an unlisted variant.                                  *)
(***************************************************************************)
\* C1: a direct mapper call always returns a well-formed stable error of its
\* family (violated by PsbtParseError::from on an unlisted variant)
C1_MappersTotal ==
    op \in MapperCalls =>
        /\ result.tag = "Returned"
        /\ WellFormed(result.error)
        /\ result.error.family = ConvFamily

(***************************************************************************)
(* C2.  In the address-parse, amount-parse, script-to-address, encoding,   *)
(* PSBT and transaction-extraction mappers an upstream value whose variant *)
(* no arm names yields the family's catch-all variant, with no payload.    *)
(***************************************************************************)
CatchAllName ==
    [ AddressParseError |-> "OtherAddressParseErr",
      ParseAmountError  |-> "OtherParseAmountErr",
      FromScriptError   |-> "OtherFromScriptErr",
      EncodeError       |-> "OtherEncodeErr",
      PsbtError         |-> "OtherPsbtErr",
      ExtractTxError    |-> "OtherExtractTxErr" ]

\* C2: an unlisted upstream variant yields exactly the payload-free catch-all
\* of the family, in each of the six families that have one
C2_CatchAllReachability ==
    ( /\ op \in MapperCalls
      /\ ConvFamily \in DOMAIN CatchAllName
      /\ input.error.variant \notin EnumeratedVariants(ConvFamily) )
    => /\ result.tag = "Returned"
       /\ result.error = [family |-> ConvFamily,
                          variant |-> CatchAllName[ConvFamily]]
       /\ Payload(result.error) = {}

\* C2 witness: the transaction-extraction mapper was handed an unlisted variant
C2_Witness ==
    /\ op = "ExtractTxError::from"
    /\ input.error.variant = "Unlisted"
    /\ result.tag = "Returned"
    /\ result.error.variant = "OtherExtractTxErr"

(***************************************************************************)
(* C3.  A catch-all variant of a family is a declared variant that the     *)
(* family's mapper returns for an upstream variant no arm names, and for   *)
(* no variant an arm names.                                                *)
(* Original: every one of the eight stable families has exactly one.       *)
(* Amended: the six families of C2 have exactly one; FeeRateError (built   *)
(* in place, no mapper) and PsbtParseError (unlisted variants panic) have  *)
(* none.                                                                   *)
(***************************************************************************)
ImageOf(family, listed) ==
    { From(family, e).variant :
        e \in { u \in UpstreamValues(family) :
                  /\ (u.variant \in EnumeratedVariants(family)) = listed
                  /\ ~IsPanic(From(family, u)) } }

CatchAllVariants(family) ==
    IF family \notin MapperFamilies THEN {}
    ELSE (DOMAIN Decl(family) \cap ImageOf(family, FALSE))
            \ ImageOf(family, TRUE)

\* the operations that can hand the caller an error, with its family
Fallible == MapperCalls \cup FallibleWrappers \cup {"FeeRate::from_sat_per_vb"}

ErrorFamily ==
    IF op = "FeeRate::from_sat_per_vb" THEN "FeeRateError" ELSE ConvFamily

\* C3 as stated: the family of any fallible operation has exactly one catch-all
C3_ExactlyOneCatchAllEveryFamily ==
    op \in Fallible => Cardinality(CatchAllVariants(ErrorFamily)) = 1

\* C3 amended: exactly the named catch-all in six families, none in
\* FeeRateError and PsbtParseError
C3_CatchAllPerFamily ==
    op \in Fallible =>
        /\ ErrorFamily \in DOMAIN CatchAllName =>
              CatchAllVariants(ErrorFamily) = {CatchAllName[ErrorFamily]}
        /\ ErrorFamily \in {"FeeRateError", "PsbtParseError"} =>
              CatchAllVariants(ErrorFamily) = {}
        /\ ErrorFamily \in Families

\* a family with a catch-all: its mapper is handed an unlisted variant and
\* returns the one catch-all
C3_Witness ==
    /\ op = "PsbtError::from"
    /\ input.error.variant = "Unlisted"
    /\ result.tag = "Returned"
    /\ CatchAllVariants("PsbtError") = {result.error.variant}

(***************************************************************************)
(* C4.  Every fallible wrapper returns an error exactly when the upstream  *)
(* operation fails, that error being the mapper's image of the upstream    *)
(* error, and a success value exactly when the upstream succeeds.          *)
(* The code does not satisfy this: Psbt::deserialize_base64 panics when    *)
(* the upstream fails with an unlisted variant (see C1).                   *)
(***************************************************************************)
\* C4: a fallible wrapper returns Err(From(e)) iff the upstream returned
\* Err(e), and Ok of the wrapped value iff the upstream returned Ok
C4_WrappersPropagate ==
    op \in FallibleWrappers =>
        /\ result.tag \in {"Ok", "Err"}
        /\ (result.tag = "Err") = (LastOutcome.tag = "Err")
        /\ (result.tag = "Ok") = (LastOutcome.tag = "Ok")
        /\ result.tag = "Err" =>
              /\ WellFormed(result.error)
              /\ result.error = From(WrapperFamily[op], LastOutcome.error)
        /\ result.tag = "Ok" => result.value.inner = LastOutcome.value

(***************************************************************************)
(* C5.  FeeRate::from_sat_per_vb(v) returns FeeRateError::ArithmeticOverflow *)
(* (no payload) exactly when v * 250 does not fit in 64 bits, that is when *)
(* v > floor((2^64 - 1) / 250), and returns the FeeRate of v * 250 sat/kwu *)
(* otherwise; FeeRate::from_sat_per_kwu returns a FeeRate for every input. *)
(***************************************************************************)
\* floor((2^64 - 1) / 250) = 73786976294838206 = 0x0106_24DD_2F1A_9FBE
LargestSatPerVb == <<262, 9437, 12058, 40894>>

\* a > b on big-endian limbs of equal length
RECURSIVE LimbsGreater(_, _)
LimbsGreater(a, b) ==
    IF a = <<>> THEN FALSE
    ELSE \/ Head(a) > Head(b)
         \/ Head(a) = Head(b) /\ LimbsGreater(Tail(a), Tail(b))

\* a + b on big-endian limbs, the carry out of the top limb dropped
RECURSIVE AddLimbs(_, _, _)
AddLimbs(a, b, carry) ==
    IF a = <<>> THEN <<>>
    ELSE LET n == Len(a)
             t == a[n] + b[n] + carry
         IN Append(AddLimbs(SubSeq(a, 1, n - 1), SubSeq(b, 1, n - 1),
                            t \div (256 * 256)),
                   t % (256 * 256))

Plus(a, b) == AddLimbs(a, b, 0)

Times5(x) == LET x2 == Plus(x, x) IN Plus(Plus(x2, x2), x)

\* 250 * v = 2 * 5 * 5 * 5 * v, by additions
Times250(v) == LET w == Times5(Times5(Times5(v))) IN Plus(w, w)

\* C5: overflow error iff sat_per_vb > floor((2^64 - 1) / 250), else the
\* FeeRate of 250 * sat_per_vb; from_sat_per_kwu keeps its input
C5_FeeRateOverflow ==
    /\ op = "FeeRate::from_sat_per_vb" =>
          IF LimbsGreater(input.sat_per_vb, LargestSatPerVb)
          THEN result = Err([family |-> "FeeRateError",
                             variant |-> "ArithmeticOverflow"])
          ELSE /\ result.tag = "Ok"
               /\ result.value.inner.sat_per_kwu = Times250(input.sat_per_vb)
    /\ op = "FeeRate::from_sat_per_kwu" =>
          /\ result.tag = "Value"
          /\ result.value.inner.sat_per_kwu = input.sat_per_kwu

\* the smallest overflowing input is refused
C5_Witness ==
    /\ op = "FeeRate::from_sat_per_vb"
    /\ input.sat_per_vb = <<262, 9437, 12058, 40895>>
    /\ result.tag = "Err"
    /\ result.error.variant = "ArithmeticOverflow"

(***************************************************************************)
(* C6.  Numeric fields kept verbatim.                                      *)
(* Original: the segwit flag byte, the non-standard sighash value and the  *)
(* byte count each appear in the stable error equal to the upstream field. *)
(* Amended: the flag byte and the sighash value do; the byte counts of     *)
(* OversizedVectorAllocation (requested, max) are dropped, the stable      *)
(* variant carries no field.                                               *)
(***************************************************************************)
FlagAndSighashKept ==
    /\ ConvError.variant = "UnsupportedSegwitFlag" /\ ConvFamily = "EncodeError" =>
          /\ Mapped
          /\ result.error.variant = "UnsupportedSegwitFlag"
          /\ result.error.flag = ConvError.flag
    /\ ConvError.variant = "NonStandardSighashType" /\ ConvFamily = "PsbtError" =>
          /\ Mapped
          /\ result.error.variant = "NonStandardSighashType"
          /\ result.error.sighash = ConvError.sighash

\* C6 as stated: flag, sighash and the requested byte count are all carried
C6_NumericFieldsIncludingByteCount ==
    Converting =>
        /\ FlagAndSighashKept
        /\ ConvError.variant = "OversizedVectorAllocation" =>
              /\ Mapped
              /\ "requested" \in Payload(result.error)

\* C6 amended: flag and sighash are carried unchanged; the oversized
\* allocation variant carries nothing
C6_NumericFields ==
    Converting =>
        /\ FlagAndSighashKept
        /\ ConvError.variant = "OversizedVectorAllocation" =>
              /\ Mapped
              /\ result.error = [family |-> "EncodeError",
                                 variant |-> "OversizedVectorAllocation"]

\* a sighash value that needs all 32 bits arrives whole
C6_Witness ==
    /\ op = "PsbtError::from"
    /\ input.error.variant = "NonStandardSighashType"
    /\ input.error.sighash = <<65535, 65535>>
    /\ result.tag = "Returned"
    /\ result.error.sighash = <<65535, 65535>>

(***************************************************************************)
(* C7.  An InvalidChecksum error keeps its 4-byte expected and actual      *)
(* checksums as lowercase hex text: the bytes in order, two digits per     *)
(* byte with leading zeros (8 characters), expected and actual not         *)
(* swapped; deadbeef / feedface give "deadbeef" / "feedface".              *)
(***************************************************************************)
HexValue(c) ==
    CASE c = "0" -> 0  [] c = "1" -> 1  [] c = "2" -> 2  [] c = "3" -> 3
      [] c = "4" -> 4  [] c = "5" -> 5  [] c = "6" -> 6  [] c = "7" -> 7
      [] c = "8" -> 8  [] c = "9" -> 9  [] c = "a" -> 10 [] c = "b" -> 11
      [] c = "c" -> 12 [] c = "d" -> 13 [] c = "e" -> 14 [] c = "f" -> 15
      [] OTHER -> -1

IsLowerHexOf(text, bytes) ==
    /\ Len(text) = 2 * Len(bytes)
    /\ \A i \in 1..Len(bytes) :
          /\ HexValue(text[2 * i - 1]) >= 0
          /\ HexValue(text[2 * i]) >= 0
          /\ 16 * HexValue(text[2 * i - 1]) + HexValue(text[2 * i]) = bytes[i]

\* C7: expected and actual are the zero-padded lowercase hex of their own bytes
C7_ChecksumHex ==
    (Converting /\ ConvFamily = "EncodeError"
                /\ ConvError.variant = "InvalidChecksum") =>
        /\ Mapped
        /\ result.error.variant = "InvalidChecksum"
        /\ Len(result.error.expected) = 8
        /\ Len(result.error.actual) = 8
        /\ IsLowerHexOf(result.error.expected, ConvError.expected)
        /\ IsLowerHexOf(result.error.actual, ConvError.actual)
        /\ (ConvError.expected = <<222, 173, 190, 239>>
              /\ ConvError.actual = <<254, 237, 250, 206>>) =>
              /\ result.error.expected = <<"d", "e", "a", "d", "b", "e", "e", "f">>
              /\ result.error.actual = <<"f", "e", "e", "d", "f", "a", "c", "e">>

\* a checksum with bytes below 0x10 keeps its leading zeros
C7_Witness ==
    /\ op = "Transaction::deserialize"
    /\ LastOutcome.tag = "Err"
    /\ LastOutcome.error.variant = "InvalidChecksum"
    /\ LastOutcome.error.expected = <<0, 10, 1, 255>>
    /\ LastOutcome.error.actual = <<222, 173, 190, 239>>
    /\ result.tag = "Err"
    /\ result.error.expected = <<"0", "0", "0", "a", "0", "1", "f", "f">>
    /\ result.error.actual = <<"d", "e", "a", "d", "b", "e", "e", "f">>

(***************************************************************************)
(* C8.  Every stable field that keeps an upstream payload as text equals   *)
(* the Display string of that same payload; an upstream DuplicateKey with  *)
(* key bytes 01 02 maps to DuplicateKey whose key is the Display string of *)
(* that key.                                                               *)
(***************************************************************************)
\* fields that are numbers or hex, not Display text (C6, C7)
PrimitiveFields == {"flag", "sighash", "expected", "actual"}

TextFields(e) == Payload(e) \ PrimitiveFields

\* the one payload of an upstream value whose stable variant keeps text
TextSource(e) == IF "inner" \in DOMAIN e THEN e.inner ELSE e.fee_rate

\* the variants the claim names as keeping text
NamedTextVariants ==
    [ AddressParseError |-> {"WitnessVersion", "WitnessProgram"},
      FromScriptError   |-> {"WitnessProgram", "WitnessVersion"},
      PsbtError         |-> {"InvalidKey", "DuplicateKey", "InvalidHash",
                             "ConsensusEncoding", "Io"},
      PsbtParseError    |-> {"PsbtEncoding", "Base64Encoding"} ]

\* C8: every text field is the Display string of the payload of the upstream
\* value that was converted, and the named variants carry one
C8_TextFidelity ==
    Converting =>
        /\ Mapped =>
              \A fld \in TextFields(result.error) :
                  result.error[fld] = [fmt |-> "Display", of |-> TextSource(ConvError)]
        /\ ( /\ ConvFamily \in DOMAIN NamedTextVariants
             /\ ConvError.variant \in NamedTextVariants[ConvFamily] ) =>
              /\ Mapped
              /\ result.error.variant = ConvError.variant
              /\ Cardinality(TextFields(result.error)) = 1

\* C8 witness: DuplicateKey with key bytes 01 02
C8_Witness ==
    /\ op = "PsbtError::from"
    /\ input.error.variant = "DuplicateKey"
    /\ input.error.inner.key = <<1, 2>>
    /\ result.tag = "Returned"
    /\ result.error.variant = "DuplicateKey"
    /\ result.error.key = [fmt |-> "Display", of |-> input.error.inner]

(***************************************************************************)
(* C9.  The PSBT mapper.                                                   *)
(* Original: every variant an arm names keeps its own stable variant, and  *)
(* whenever the upstream variant carries a sub-error (taproot and          *)
(* extended-public-key causes included) the stable variant carries it as   *)
(* text; only unlisted variants map to OtherPsbtErr.                       *)
(* Amended: as the original, except that the Taproot and XPubKey causes    *)
(* keep their own variant without any payload.                             *)
(***************************************************************************)
\* PsbtUtxoOutOfbounds is spelled PsbtUtxoOutOfBounds on the stable side
StablePsbtName(v) == IF v = "PsbtUtxoOutOfbounds" THEN "PsbtUtxoOutOfBounds" ELSE v

PsbtListed == ConvError.variant \in EnumeratedVariants("PsbtError")

PsbtOwnVariant ==
    /\ Mapped
    /\ PsbtListed => result.error.variant = StablePsbtName(ConvError.variant)
    /\ (result.error.variant = "OtherPsbtErr") = ~PsbtListed

CarriesText ==
    /\ Cardinality(Payload(result.error)) = 1
    /\ \A fld \in Payload(result.error) :
          result.error[fld] = [fmt |-> "Display", of |-> ConvError.inner]

\* C9 as stated: every listed PSBT variant with a payload carries it as text
C9_PsbtEverySubErrorAsText ==
    (Converting /\ ConvFamily = "PsbtError") =>
        /\ PsbtOwnVariant
        /\ (PsbtListed /\ "inner" \in DOMAIN ConvError) => CarriesText

\* C9 amended: as stated, but Taproot and XPubKey carry no payload
C9_PsbtMapper ==
    (Converting /\ ConvFamily = "PsbtError") =>
        /\ PsbtOwnVariant
        /\ (PsbtListed /\ "inner" \in DOMAIN ConvError
                       /\ ConvError.variant \notin {"Taproot", "XPubKey"})
              => CarriesText
        /\ ConvError.variant \in {"Taproot", "XPubKey"} =>
              Payload(result.error) = {}

\* a sub-error that is kept (Io) is seen, inside a wrapper
C9_Witness ==
    /\ op = "Psbt::combine"
    /\ LastOutcome.tag = "Err"
    /\ LastOutcome.error.variant = "Io"
    /\ result.tag = "Err"
    /\ result.error.variant = "Io"
    /\ result.error.error_message = [fmt |-> "Display", of |-> LastOutcome.error.inner]

(***************************************************************************)
(* C10.  In every family mapper two upstream values whose variants are     *)
(* named by different arms never get the same stable variant, and no       *)
(* variant an arm names gets the catch-all; the nine address-parse         *)
(* variants each get the stable variant of the same name.                  *)
(***************************************************************************)
CatchAllNames == {CatchAllName[f] : f \in DOMAIN CatchAllName}

\* C10: listed variants map one-to-one, never to a catch-all; address-parse
\* variants keep their names
C10_OneToOne ==
    (Converting /\ ConvError.variant \in EnumeratedVariants(ConvFamily)) =>
        /\ Mapped
        /\ result.error.variant \notin CatchAllNames
        /\ \A u \in UpstreamValues(ConvFamily) :
              ( /\ u.variant \in EnumeratedVariants(ConvFamily)
                /\ u.variant # ConvError.variant )
              => /\ ~IsPanic(From(ConvFamily, u))
                 /\ From(ConvFamily, u).variant # result.error.variant
        /\ ConvFamily = "AddressParseError" =>
              /\ ConvError.variant \in
                    {"Base58", "Bech32", "WitnessVersion", "WitnessProgram",
                     "UnknownHrp", "LegacyAddressTooLong",
                     "InvalidBase58PayloadLength", "InvalidLegacyPrefix",
                     "NetworkValidation"}
              /\ result.error.variant = ConvError.variant

\* C10 witness: Bech32 is kept apart from Base58
C10_Witness ==
    /\ op = "AddressParseError::from"
    /\ input.error.variant = "Bech32"
    /\ result.tag = "Returned"
    /\ result.error.variant = "Bech32"

(***************************************************************************)
(* C11.  The amount-parse mapper.                                          *)
(* Original: out-of-range, too-precise, missing-digits and input-too-large *)
(* get their own payload-free variants, invalid-character gets             *)
(* InvalidCharacter whose text is the offending character as text, every   *)
(* other cause gets OtherParseAmountErr.                                   *)
(* Amended: as the original, except that the text of InvalidCharacter is   *)
(* the Display string of the whole upstream payload, the error that holds  *)
(* the offending character and its position, not of the character.         *)
(***************************************************************************)
PayloadFreeAmountVariants ==
    {"OutOfRange", "TooPrecise", "MissingDigits", "InputTooLarge"}

\* everything the claim says but the text of InvalidCharacter
AmountVariantsKept ==
    /\ Mapped
    /\ ConvError.variant \in PayloadFreeAmountVariants =>
          /\ result.error.variant = ConvError.variant
          /\ Payload(result.error) = {}
    /\ ConvError.variant = "InvalidCharacter" =>
          /\ result.error.variant = "InvalidCharacter"
          /\ Payload(result.error) = {"error_message"}
    /\ ConvError.variant \notin PayloadFreeAmountVariants \cup {"InvalidCharacter"} =>
          /\ result.error.variant = "OtherParseAmountErr"
          /\ Payload(result.error) = {}

\* C11 as stated: the text of InvalidCharacter is the offending character
C11_TextIsTheCharacter ==
    (Converting /\ ConvFamily = "ParseAmountError") =>
        /\ AmountVariantsKept
        /\ ConvError.variant = "InvalidCharacter" =>
              result.error.error_message =
                  [fmt |-> "Display", of |-> ConvError.inner.invalid_char]

\* C11 amended: the text of InvalidCharacter is the Display string of the
\* upstream payload, which holds the character and its position
C11_AmountMapper ==
    (Converting /\ ConvFamily = "ParseAmountError") =>
        /\ AmountVariantsKept
        /\ ConvError.variant = "InvalidCharacter" =>
              result.error.error_message =
                  [fmt |-> "Display", of |-> ConvError.inner]

\* C11 witness: Amount::from_btc fails on a stray "x" at position 3
C11_Witness ==
    /\ op = "Amount::from_btc"
    /\ LastOutcome.tag = "Err"
    /\ LastOutcome.error.variant = "InvalidCharacter"
    /\ LastOutcome.error.inner.invalid_char.ch = "x"
    /\ LastOutcome.error.inner.position = 3
    /\ result.tag = "Err"
    /\ result.error.variant = "InvalidCharacter"
    /\ result.error.error_message = [fmt |-> "Display", of |-> LastOutcome.error.inner]

(***************************************************************************)
(* C14.  Address::new parses the string, then validates the network: it    *)
(* returns an Address exactly when both pass; a parse failure returns the  *)
(* mapped parse error whatever the network is, and require_network is not  *)
(* called; a parsed address that does not belong to the network returns    *)
(* AddressParseError::NetworkValidation.                                   *)
(***************************************************************************)
\* what bitcoin::Address::from_str answered for the string given
ParseOutcome == input.address.from_str

ParsePasses == ParseOutcome.tag = "Ok"

NetworkPasses == ParsePasses /\ input.network \in ParseOutcome.value.valid_for

UpstreamCalls == [i \in 1..Len(upstream) |-> upstream[i].call]

\* C14: the two checks of Address::new, in order
C14_AddressNewOrder ==
    op = "Address::new" =>
        /\ upstream[1] = [call |-> "Address::from_str", outcome |-> ParseOutcome]
        /\ (result.tag = "Ok") = (ParsePasses /\ NetworkPasses)
        /\ result.tag = "Ok" =>
              /\ result.value.type = "Address"
              /\ input.network \in result.value.inner.valid_for
        /\ ~ParsePasses =>
              /\ UpstreamCalls = <<"Address::from_str">>
              /\ result = Err(From("AddressParseError", ParseOutcome.error))
              /\ \A n \in Network : Address_new(input.address, n).result = result
        /\ ParsePasses =>
              /\ UpstreamCalls = <<"Address::from_str", "Address::require_network">>
        /\ (ParsePasses /\ ~NetworkPasses) =>
              /\ result.tag = "Err"
              /\ result.error = [family |-> "AddressParseError",
                                 variant |-> "NetworkValidation"]

\* C14 witness: a mainnet address string given with Testnet
C14_Witness ==
    /\ op = "Address::new"
    /\ ParsePasses
    /\ ParseOutcome.value.valid_for = {"Bitcoin"}
    /\ input.network = "Testnet"
    /\ Len(upstream) = 2
    /\ result.tag = "Err"
    /\ result.error.variant = "NetworkValidation"

(***************************************************************************)
(* C13.  Psbt::combine, Psbt::extract_tx and Psbt::fee leave the receiver, *)
(* and combine its other operand, as they were, whether they return Ok or  *)
(* Err: across any such call every object serializes to what it did        *)
(* before; what combine returns is a new object, neither operand.          *)
(***************************************************************************)
PsbtReaders == {"Psbt::extract_tx", "Psbt::combine", "Psbt::fee"}

\* every object held before the step is held after it with the same bytes
ObjectsKept ==
    /\ Len(psbts') >= Len(psbts)
    /\ \A h \in 1..Len(psbts) :
          /\ psbts'[h] = psbts[h]
          /\ bitcoin_Psbt_serialize(psbts'[h]) = bitcoin_Psbt_serialize(psbts[h])

\* the handle combine returned is new and names an object with the merge
CombinedIsNew ==
    LET new == result'.value.handle
    IN /\ new \notin {input'.self, input'.other}
       /\ new \notin 1..Len(psbts)
       /\ new \in 1..Len(psbts') => psbts'[new] = result'.value.inner

PsbtReaderStep ==
    op' \in PsbtReaders =>
        /\ input'.self \in 1..Len(psbts)
        /\ op' = "Psbt::combine" => input'.other \in 1..Len(psbts)
        /\ result'.tag \in {"Ok", "Err"}
        /\ ObjectsKept
        /\ (op' = "Psbt::combine" /\ result'.tag = "Ok") => CombinedIsNew
        /\ ~(op' = "Psbt::combine" /\ result'.tag = "Ok") => psbts' = psbts

\* C13: every step that is a call of extract_tx, combine or fee keeps all
\* objects, operands included, and combine returns a new object
C13_PsbtOperandsKept == [][PsbtReaderStep]_vars

\* C13 witness: two different objects were combined into a third
C13_Witness ==
    /\ op = "Psbt::combine"
    /\ input.self = 1
    /\ input.other = 2
    /\ psbts[1] # psbts[2]
    /\ result.tag = "Ok"
    /\ result.value.handle = 3
    /\ result.value.inner # psbts[1]

====
